---- MODULE Spec2Model ----
(***************************************************************************)
(* Model of the GreenCarbon EmissionsTracker (tracker, emissions, hardware *)
(* sampler and output sink) as an event-loop state machine.                *)
(*                                                                         *)
(* Every async function is cut at its awaits: the code between two awaits  *)
(* is one atomic action, and between two actions any other ready           *)
(* continuation, timer callback or client call may run.                    *)
(*                                                                         *)
(* Numbers.  Times are milliseconds as returned by Date.now(); the clock   *)
(* moves in whole seconds, so the code's division by 1000 is exact.        *)
(* Energies (kWh) are exact rationals held as their numerator over         *)
(* 1000 * 3600, emissions (kg) as their numerator over 1000 * 1000 * 3600. *)
(***************************************************************************)
EXTENDS Bags, FiniteSets, Integers, Sequences, TLC

\* ---------------------------------------------------------------- bounds
\* The number of things the environment does in a behaviour: calls of
\* start() and stop() by the client, firings of the interval timers, and
\* changes of the wall clock.
MaxEvents == 3

\* Other trackers constructed on the same output file, and how many rows
\* they write between them.
NumOthers == 2
MaxWrites == 3

\* How far the clock runs, in seconds, where its moves are not counted as
\* events.
MaxSeconds == 2
Others == 1..NumOthers

StartCalls == 1..MaxEvents
StopCalls == 1..MaxEvents

\* ------------------------------------------------------- values and units
\* JavaScript null / undefined for a numeric field or option.
Null == -999999

\* Falsy strings (null, undefined, '') of the string-valued options.
NoString == ""

\* JavaScript truthiness of a numeric-or-null value.
Truthy(x) == x # Null /\ x # 0

\* JavaScript a || b on numeric-or-null values.
OrElse(a, b) == IF Truthy(a) THEN a ELSE b

\* JavaScript a || b on string-or-null values.
OrElseStr(a, b) == IF a # NoString THEN a ELSE b

\* ----------------------------------------------------------- collaborators
\* Emissions.worldAverageCarbonIntensity, g CO2 / kWh.
worldAverageCarbonIntensity == 475

\* Emissions.carbonIntensityData as loaded by loadCarbonIntensityData: country
\* code -> carbon_intensity (the entry for France is the one README.md states).
carbonIntensityData == [c \in {"FRA"} |-> 60]

\* Mutant: a country without an entry gets no intensity.
getCarbonIntensityNoFallback(countryCode) ==
    IF countryCode \in DOMAIN carbonIntensityData
    THEN carbonIntensityData[countryCode]
    ELSE 0

\* Emissions.getCarbonIntensity: the country's entry when the table has one,
\* else the world average.
getCarbonIntensity(countryCode) ==
    IF countryCode \in DOMAIN carbonIntensityData
    THEN carbonIntensityData[countryCode]
    ELSE worldAverageCarbonIntensity

\* Mutant: the world average is used whatever the country.
calculateEmissionsWorld(energyKWh, countryCode) ==
    worldAverageCarbonIntensity * energyKWh

\* Emissions.calculateEmissions: (carbonIntensity / 1000) * energyKWh,
\* as the numerator over 1000 * (1000 * 3600).
calculateEmissions(energyKWh, countryCode) ==
    getCarbonIntensity(countryCode) * energyKWh

\* Geography.getCountryName
getCountryName(countryCode) ==
    CASE countryCode = "USA" -> "United States"
      [] countryCode = "FRA" -> "France"
      [] OTHER -> "Unknown"

\* Geography.defaultCountry
defaultCountry == "USA"

\* What Intl.DateTimeFormat().resolvedOptions().locale can be, split at '-';
\* LocaleThrows: reading it throws.
LocaleThrows == << >>
Locales == { <<"fr">>, <<"en", "US">>, <<"und">>, LocaleThrows }

\* Geography.extractCountryFromLocale, lines 49-71.
localeMap == [l \in {"en", "fr"} |-> IF l = "en" THEN "USA" ELSE "FRA"]

extractCountryFromLocale(parts) ==
    IF Len(parts) >= 2
    THEN parts[2]
    ELSE IF parts[1] \in DOMAIN localeMap THEN localeMap[parts[1]] ELSE NoString

\* The fallback of detectLocation, lines 37-43.
FallbackLocation ==
    [countryCode |-> defaultCountry, countryName |-> "United States",
     region |-> NoString]

\* Mutant: without a country from the locale there is no location.
detectLocationNoFallback(locale) ==
    IF locale # LocaleThrows /\ extractCountryFromLocale(locale) # NoString
    THEN [ countryCode |-> extractCountryFromLocale(locale),
           countryName |-> getCountryName(extractCountryFromLocale(locale)),
           region |-> NoString ]
    ELSE [countryCode |-> NoString, countryName |-> NoString, region |-> NoString]

\* Geography.detectLocation, lines 17-44: the locale's country, or the
\* default when the locale cannot be read or names no country.
detectLocation(locale) ==
    IF locale # LocaleThrows /\ extractCountryFromLocale(locale) # NoString
    THEN [ countryCode |-> extractCountryFromLocale(locale),
           countryName |-> getCountryName(extractCountryFromLocale(locale)),
           region |-> NoString ]
    ELSE FallbackLocation

DetectedLocations == { detectLocation(l) : l \in Locales }

\* HardwareTracker.estimateCPUPower / getRAMInfo / getGPUInfo: what one
\* round of sampler calls can return (watts; CPU load percent).
Samples ==
    { [cpu |-> 75, usage |-> 0, ram |-> 10, gpu |-> 150],
      [cpu |-> 150, usage |-> 100, ram |-> 10, gpu |-> 150] }

\* ------------------------------------------------------------ construction
\* The options objects the tracker is constructed with.
DefaultOptions ==
    [ measurePowerSecs |-> Null, countryCode |-> NoString, region |-> NoString,
      pue |-> Null, forceCpuPower |-> Null, forceRamPower |-> Null,
      forceGpuPower |-> Null ]

TunedOptions ==
    [ measurePowerSecs |-> 1, countryCode |-> "FRA", region |-> NoString,
      pue |-> 2, forceCpuPower |-> Null, forceRamPower |-> Null,
      forceGpuPower |-> Null ]

SpecOptions == { TunedOptions }

\* Fixed watts for every domain, 0 W for the GPU, on a 1 s interval, in
\* California.
OverrideOptions ==
    [ measurePowerSecs |-> 1, countryCode |-> "USA", region |-> "CA",
      pue |-> 1, forceCpuPower |-> 65, forceRamPower |-> 10,
      forceGpuPower |-> 0 ]

\* A country code the carbon intensity table has no entry for.
UnknownCountryOptions == [DefaultOptions EXCEPT !.countryCode = "ZZZ"]

\* A region that is no US state.
UnknownRegionOptions ==
    [DefaultOptions EXCEPT !.countryCode = "USA", !.region = "ZZ"]

\* measurePowerSecs given as 0 and as a negative number.
ZeroIntervalOptions == [DefaultOptions EXCEPT !.measurePowerSecs = 0]

NegativeIntervalOptions == [DefaultOptions EXCEPT !.measurePowerSecs = -5]

AwaitedOptions ==
    { DefaultOptions, TunedOptions, OverrideOptions, UnknownCountryOptions,
      UnknownRegionOptions, ZeroIntervalOptions, NegativeIntervalOptions }

\* EmissionsTracker.constructor: the configuration fields.
Constructor(o) ==
    [ measurePowerInterval |-> OrElse(o.measurePowerSecs, 15) * 1000,
      countryCode |-> OrElseStr(o.countryCode, NoString),
      region |-> OrElseStr(o.region, NoString),
      pue |-> OrElse(o.pue, 1),
      forceCpuPower |-> OrElse(o.forceCpuPower, Null),
      forceRamPower |-> OrElse(o.forceRamPower, Null),
      forceGpuPower |-> OrElse(o.forceGpuPower, Null) ]

\* this.locationInfo = null
NoLocation == [countryCode |-> NoString, countryName |-> NoString, region |-> NoString]

\* The result object before calculateFinalEmissions has produced one.
NoResults ==
    [ emissions |-> 0, emissionsRate |-> [num |-> 0, den |-> 1],
      energyConsumed |-> 0, duration |-> 0,
      cpuPower |-> 0, ramPower |-> 0, gpuPower |-> 0,
      cpuEnergy |-> 0, ramEnergy |-> 0, gpuEnergy |-> 0,
      countryCode |-> NoString, region |-> NoString, measurements |-> 0 ]

\* The output file before anything has written it.
NoFile == [exists |-> FALSE, rows |-> << >>]

\* fs.existsSync(this.filePath)
FileExists(f) == f.exists

\* OutputHandler.saveData, line 139: csvWriter.writeRecords([record]) on a
\* writer created with the `append` option (line 126). With append the
\* record is added at the end of the file; without, the file is written
\* anew with the header line and the record.
WriteRecords(f, append, record) ==
    [exists |-> TRUE,
     rows |-> IF append THEN Append(f.rows, record) ELSE << record >>]

\* The CSV writer of a tracker that has not been constructed.
NoWriter == [constructed |-> FALSE, append |-> FALSE, written |-> 0]

\* No getStatus() call has returned yet.
NoStatus ==
    [isTracking |-> FALSE, duration |-> 0, measurements |-> 0, totalEnergy |-> 0]

\* utils.withTracking has not run fn to its end.
NoWrapper == [pc |-> "pending", emissions |-> Null]

VARIABLES
    options,              \* the options object given to the constructor
    cfg,                  \* configuration fields set by the constructor
    isTracking, startTime, endTime, measurementInterval,
    totalCpuEnergy, totalRamEnergy, totalGpuEnergy, totalEnergy,
    measurements, locationInfo,
    now,                  \* Date.now(), counted from its value at construction
    timers,               \* setInterval timers still scheduled
    ticks,                \* bag of measurePowerAndEnergy calls awaiting the sampler
    startCalls,           \* start() calls: where each one is ("warned": it
                          \* returned at its guard), whether it was made
                          \* after a stop() had produced its result, how
                          \* many measurements its own tick pushed, and how
                          \* many calls by its timer returned at the guard
    stopCalls,            \* stop() calls: where each one is, what it returned,
                          \* how many measurements its own tick pushed, and
                          \* whether a start() had been called before it
    sink,                 \* results handed to OutputHandler.saveData
    events,               \* what the environment has done so far (a count)
    file,                 \* the output file: whether it exists, and its rows
    csvWriter,            \* the append flag of this tracker's CSV writer
    others,               \* the CSV writers of other trackers on the same file
    status,               \* what the last getStatus() call returned
    wt                    \* utils.withTracking: how far its body has come

vars ==
    << options, cfg, isTracking, startTime, endTime, measurementInterval,
       totalCpuEnergy, totalRamEnergy, totalGpuEnergy, totalEnergy,
       measurements, locationInfo, now, timers, ticks, startCalls,
       stopCalls, sink, events, file, csvWriter, others, status, wt >>

\* What the tracker's own methods never touch.
surroundings == << others, status, wt >>

\* The output file and this tracker's writer on it.
disk == << file, csvWriter >>

accumulators ==
    << totalCpuEnergy, totalRamEnergy, totalGpuEnergy, totalEnergy, measurements >>

\* State after `new EmissionsTracker(options)`.
InitWith(o) ==
    /\ options = o
    /\ cfg = Constructor(o)
    /\ isTracking = FALSE
    /\ startTime = Null
    /\ endTime = Null
    /\ measurementInterval = Null
    /\ totalCpuEnergy = 0
    /\ totalRamEnergy = 0
    /\ totalGpuEnergy = 0
    /\ totalEnergy = 0
    /\ measurements = << >>
    /\ locationInfo = NoLocation
    /\ now = 0
    /\ timers = {}
    /\ ticks = EmptyBag
    /\ startCalls = [c \in StartCalls |->
                       [pc |-> "idle", afterStop |-> FALSE, pushed |-> 0,
                        skipped |-> 0]]
    /\ stopCalls = [j \in StopCalls |->
                      [pc |-> "idle", ret |-> Null, computed |-> FALSE,
                       results |-> NoResults, pushed |-> 0,
                       afterStart |-> FALSE]]
    /\ sink = << >>
    /\ events = 0
    /\ file = NoFile
    /\ csvWriter = [append |-> FileExists(NoFile)]
    /\ others = [h \in Others |-> NoWriter]
    /\ status = NoStatus
    /\ wt = NoWrapper

Init == \E o \in SpecOptions : InitWith(o)

\* ------------------------------------------------------------ tick handler
\* Mutant: every tick is charged the configured interval.
TimeSinceAlwaysInterval(meas, measurementTime) ==
    cfg.measurePowerInterval \div 1000

\* Mutant: with an empty log the time is counted from startTime.
TimeSinceStartWhenEmpty(meas, measurementTime) ==
    IF Len(meas) > 0
    THEN (measurementTime - meas[Len(meas)].timestamp) \div 1000
    ELSE (measurementTime - startTime) \div 1000

\* measurePowerAndEnergy, lines 174-177: seconds since the last measurement
\* in the log, or the configured interval when the log is empty.
TimeSinceLastMeasurement(meas, measurementTime) ==
    IF Len(meas) > 0
    THEN (measurementTime - meas[Len(meas)].timestamp) \div 1000
    ELSE cfg.measurePowerInterval \div 1000

\* measurePowerAndEnergy, lines 185-187: the force override, else the sample.
PowerOf(force, sampled) == OrElse(force, sampled)

\* measurePowerAndEnergy, lines 190-192: (power * seconds) / (1000 * 3600),
\* as the numerator over 1000 * 3600.
EnergyOf(power, timeSince) == power * timeSince

\* Mutant: the PUE is not applied.
AdjustedEnergyNoPue(energy) == energy

\* measurePowerAndEnergy, lines 195-197: apply the PUE.
AdjustedEnergy(energy) == energy * cfg.pue

\* Mutant: the total leaves out the gpu accumulator.
TotalOfNoGpu(cpu, ram, gpu) == cpu + ram

\* measurePowerAndEnergy, line 203: the total is recomputed from the parts.
TotalOf(cpu, ram, gpu) == cpu + ram + gpu

\* The call's locals while it awaits the sampler.
NewTick(kind, call, meas) ==
    [ kind |-> kind, call |-> call,
      measurementTime |-> now,
      timeSinceLastMeasurement |-> TimeSinceLastMeasurement(meas, now) ]

InFlight == BagCardinality(ticks)

\* The environment does one more thing, within the bound.
Event ==
    /\ events < MaxEvents
    /\ events' = events + 1

\* measurePowerAndEnergy, lines 206-217: the record pushed on the log.
MeasurementOf(tk, s, newTotal) ==
    [ timestamp |-> tk.measurementTime,
      duration |-> tk.timeSinceLastMeasurement,
      cpuPower |-> PowerOf(cfg.forceCpuPower, s.cpu),
      ramPower |-> PowerOf(cfg.forceRamPower, s.ram),
      gpuPower |-> PowerOf(cfg.forceGpuPower, s.gpu),
      cpuEnergy |-> AdjustedEnergy(EnergyOf(PowerOf(cfg.forceCpuPower, s.cpu),
                                            tk.timeSinceLastMeasurement)),
      ramEnergy |-> AdjustedEnergy(EnergyOf(PowerOf(cfg.forceRamPower, s.ram),
                                            tk.timeSinceLastMeasurement)),
      gpuEnergy |-> AdjustedEnergy(EnergyOf(PowerOf(cfg.forceGpuPower, s.gpu),
                                            tk.timeSinceLastMeasurement)),
      totalEnergy |-> newTotal,
      cpuUsage |-> s.usage ]

\* Mutant: the division has no guard.
RateGuardMissing(duration) == TRUE

\* calculateFinalEmissions, line 238: the guard of the division.
RateGuard(duration) == duration > 0

\* calculateFinalEmissions, line 238: emissions / duration as the fraction
\* num / den (kg per second, num over 1000 * 1000 * 3600), or 0.
EmissionsRate(emissions, duration) ==
    IF RateGuard(duration)
    THEN [num |-> emissions, den |-> duration]
    ELSE [num |-> 0, den |-> 1]

\* Mutant: the power values are those of the first measurement of the log.
calculateFinalEmissionsFirst(t, cpu, ram, gpu, total, meas) ==
    LET n == Len(meas)
    IN [ emissions |-> calculateEmissions(total, locationInfo.countryCode),
         emissionsRate |->
             EmissionsRate(calculateEmissions(total, locationInfo.countryCode),
                           (t - startTime) \div 1000),
         energyConsumed |-> total,
         duration |-> (t - startTime) \div 1000,
         cpuPower |-> IF n > 0 THEN OrElse(meas[1].cpuPower, 0) ELSE 0,
         ramPower |-> IF n > 0 THEN OrElse(meas[1].ramPower, 0) ELSE 0,
         gpuPower |-> IF n > 0 THEN OrElse(meas[1].gpuPower, 0) ELSE 0,
         cpuEnergy |-> cpu,
         ramEnergy |-> ram,
         gpuEnergy |-> gpu,
         countryCode |-> locationInfo.countryCode,
         region |-> locationInfo.region,
         measurements |-> n ]

\* calculateFinalEmissions, lines 235-282, over the given totals and log,
\* with endTime = t.
calculateFinalEmissions(t, cpu, ram, gpu, total, meas) ==
    LET n == Len(meas)
    IN [ emissions |-> calculateEmissions(total, locationInfo.countryCode),
         emissionsRate |->
             EmissionsRate(calculateEmissions(total, locationInfo.countryCode),
                           (t - startTime) \div 1000),
         energyConsumed |-> total,
         duration |-> (t - startTime) \div 1000,
         cpuPower |-> IF n > 0 THEN OrElse(meas[n].cpuPower, 0) ELSE 0,
         ramPower |-> IF n > 0 THEN OrElse(meas[n].ramPower, 0) ELSE 0,
         gpuPower |-> IF n > 0 THEN OrElse(meas[n].gpuPower, 0) ELSE 0,
         cpuEnergy |-> cpu,
         ramEnergy |-> ram,
         gpuEnergy |-> gpu,
         countryCode |-> locationInfo.countryCode,
         region |-> locationInfo.region,
         measurements |-> n ]

\* The caller of the handler resumes when the handler's promise settles.
\* start(), lines 90-94: start() logs and resolves.
\* stop(), lines 121-133: endTime and isTracking are set, the result is
\* computed from the totals and the log and handed to the output handler.
\* When `completes` is false, the computation of the result or the console
\* summary (lines 125-130) throws: stop()'s catch block (lines 139-143) sets
\* isTracking = false again and returns 0.
ResumeCallerWith(tk, cpu, ram, gpu, total, meas, completes) ==
    /\ startCalls' = IF tk.kind = "start"
                     THEN [startCalls EXCEPT
                             ![tk.call].pc = "done",
                             ![tk.call].pushed = Len(meas) - Len(measurements)]
                     ELSE startCalls
    /\ IF tk.kind = "stop"
       THEN /\ endTime' = now
            /\ isTracking' = FALSE
            /\ IF completes
               THEN /\ stopCalls' =
                         [stopCalls EXCEPT
                            ![tk.call].pc = "save",
                            ![tk.call].computed = TRUE,
                            ![tk.call].pushed = Len(meas) - Len(measurements),
                            ![tk.call].results =
                                calculateFinalEmissions(now, cpu, ram, gpu,
                                                        total, meas)]
                    /\ sink' = Append(sink,
                                calculateFinalEmissions(now, cpu, ram, gpu,
                                                        total, meas))
               ELSE /\ stopCalls' =
                         [stopCalls EXCEPT
                            ![tk.call].pc = "done",
                            ![tk.call].ret = 0,
                            ![tk.call].pushed = Len(meas) - Len(measurements)]
                    /\ UNCHANGED sink
       ELSE UNCHANGED << endTime, isTracking, stopCalls, sink >>

ResumeCaller(tk, cpu, ram, gpu, total, meas) ==
    ResumeCallerWith(tk, cpu, ram, gpu, total, meas, TRUE)

\* measurePowerAndEnergy, lines 180-219: the sampler calls resolved with s;
\* the totals are updated and the measurement is pushed; the caller resumes.
TickEndWith(tk, s, completes) ==
    /\ BagIn(tk, ticks)
    /\ LET m == MeasurementOf(tk, s, 0)
           cpu == totalCpuEnergy + m.cpuEnergy
           ram == totalRamEnergy + m.ramEnergy
           gpu == totalGpuEnergy + m.gpuEnergy
           total == TotalOf(cpu, ram, gpu)
           meas == Append(measurements, MeasurementOf(tk, s, total))
       IN /\ totalCpuEnergy' = cpu
          /\ totalRamEnergy' = ram
          /\ totalGpuEnergy' = gpu
          /\ totalEnergy' = total
          /\ measurements' = meas
          /\ ResumeCallerWith(tk, cpu, ram, gpu, total, meas, completes)
    /\ ticks' = ticks (-) SetToBag({tk})
    /\ UNCHANGED << surroundings, disk, options, cfg, startTime, measurementInterval, locationInfo, now, timers, events >>

TickEnd(tk, s) == TickEndWith(tk, s, TRUE)

\* Mutant: the handler does not catch the rejection; it reaches the caller's
\* catch block (start, lines 96-99; stop, lines 139-143), which sets
\* isTracking = false.
TickFailAborts(tk) ==
    /\ BagIn(tk, ticks)
    /\ ticks' = ticks (-) SetToBag({tk})
    /\ isTracking' = IF tk.kind = "timer" THEN isTracking ELSE FALSE
    /\ startCalls' = IF tk.kind = "start"
                     THEN [startCalls EXCEPT ![tk.call].pc = "done"]
                     ELSE startCalls
    /\ stopCalls' = IF tk.kind = "stop"
                    THEN [stopCalls EXCEPT ![tk.call].pc = "done",
                                           ![tk.call].ret = 0]
                    ELSE stopCalls
    /\ UNCHANGED << surroundings, disk, options, cfg, startTime, endTime, measurementInterval,
                    totalCpuEnergy, totalRamEnergy, totalGpuEnergy, totalEnergy,
                    measurements, locationInfo, now, timers, sink, events >>

\* Mutant: a failed call logs a measurement without power or energy, so the
\* next call counts its time from the failed one.
TickFailSkipsTime(tk) ==
    /\ BagIn(tk, ticks)
    /\ ticks' = ticks (-) SetToBag({tk})
    /\ LET meas == Append(measurements,
                     [ timestamp |-> tk.measurementTime,
                       duration |-> tk.timeSinceLastMeasurement,
                       cpuPower |-> 0, ramPower |-> 0, gpuPower |-> 0,
                       cpuEnergy |-> 0, ramEnergy |-> 0, gpuEnergy |-> 0,
                       totalEnergy |-> totalEnergy, cpuUsage |-> 0 ])
       IN /\ measurements' = meas
          /\ ResumeCallerWith(tk, totalCpuEnergy, totalRamEnergy,
                              totalGpuEnergy, totalEnergy, meas, TRUE)
    /\ UNCHANGED << surroundings, disk, options, cfg, startTime, measurementInterval,
                    totalCpuEnergy, totalRamEnergy, totalGpuEnergy, totalEnergy,
                    locationInfo, now, timers, events >>

\* measurePowerAndEnergy, lines 227-229: a sampler call rejected; the error
\* is logged and the handler returns; the caller resumes.
TickFailWith(tk, completes) ==
    /\ BagIn(tk, ticks)
    /\ ticks' = ticks (-) SetToBag({tk})
    /\ ResumeCallerWith(tk, totalCpuEnergy, totalRamEnergy, totalGpuEnergy,
                        totalEnergy, measurements, completes)
    /\ UNCHANGED << surroundings, disk, options, cfg, startTime, measurementInterval,
                    totalCpuEnergy, totalRamEnergy, totalGpuEnergy, totalEnergy,
                    measurements, locationInfo, now, timers, events >>

TickFail(tk) == TickFailWith(tk, TRUE)

\* Some call of the handler awaiting the sampler completes.
SomeTickEnd == \E tk \in BagToSet(ticks), s \in Samples : TickEnd(tk, s)

\* Some call of the handler awaiting the sampler sees it reject.
SomeTickFail == \E tk \in BagToSet(ticks) : TickFail(tk)

\* The final measurement of a stop() settles, and stop() then throws while
\* it computes or prints its result.
StopThrows ==
    \E tk \in BagToSet(ticks) :
        /\ tk.kind = "stop"
        /\ \/ \E s \in Samples : TickEndWith(tk, s, FALSE)
           \/ TickFailWith(tk, FALSE)

\* Mutant: the handler has no guard.
TickGuardMissing == FALSE

\* measurePowerAndEnergy, line 171: the guard.
TickGuard == ~isTracking

\* The setInterval callback of timer k: measurePowerAndEnergy, lines 171-180.
TimerFire(k) ==
    /\ k \in timers
    /\ Event
    /\ ticks' = IF TickGuard
                THEN ticks
                ELSE ticks (+) SetToBag({NewTick("timer", k, measurements)})
    /\ startCalls' = IF TickGuard
                     THEN [startCalls EXCEPT ![k].skipped = @ + 1]
                     ELSE startCalls
    /\ UNCHANGED << surroundings, disk, options, cfg, isTracking, startTime, endTime, measurementInterval,
                    totalCpuEnergy, totalRamEnergy, totalGpuEnergy, totalEnergy,
                    measurements, locationInfo, now, timers,
                    stopCalls, sink >>

\* ------------------------------------------------------------------ start
\* Mutant: start() has no guard.
StartGuardMissing == FALSE

\* start, line 61: the guard.
StartGuard == isTracking

\* start(), lines 60-70: the guard, then the await of initializeSystemInfo.
StartCall(c) ==
    /\ Event
    /\ startCalls[c].pc = "idle"
    /\ \A d \in StartCalls : d < c => startCalls[d].pc # "idle"
    /\ startCalls' = [startCalls EXCEPT
                        ![c].pc = IF StartGuard THEN "warned" ELSE "init",
                        ![c].afterStop = \E j \in StopCalls : stopCalls[j].computed]
    /\ UNCHANGED << surroundings, disk, options, cfg, isTracking, startTime, endTime, measurementInterval,
                    totalCpuEnergy, totalRamEnergy, totalGpuEnergy, totalEnergy,
                    measurements, locationInfo, now, timers, ticks,
                    stopCalls, sink >>

\* initializeSystemInfo, lines 154-162: the location of the session.
ResolveLocation(detected) ==
    IF cfg.countryCode # NoString
    THEN [ countryCode |-> cfg.countryCode,
           countryName |-> getCountryName(cfg.countryCode),
           region |-> cfg.region ]
    ELSE detected

\* start(), lines 70-88: initializeSystemInfo resolved; the state is reset,
\* the timer is set and the initial measurement begins.
StartInit(c, detected) ==
    /\ startCalls[c].pc = "init"
    /\ locationInfo' = ResolveLocation(detected)
    /\ isTracking' = TRUE
    /\ startTime' = now
    /\ totalCpuEnergy' = 0
    /\ totalRamEnergy' = 0
    /\ totalGpuEnergy' = 0
    /\ totalEnergy' = 0
    /\ measurements' = << >>
    /\ measurementInterval' = c
    /\ timers' = timers \cup {c}
    /\ ticks' = ticks (+) SetToBag({NewTick("start", c, << >>)})
    /\ startCalls' = [startCalls EXCEPT ![c].pc = "tick"]
    /\ UNCHANGED << surroundings, disk, options, cfg, endTime, now, stopCalls, sink, events >>

\* Mutant: the catch block of start() throws the error on to the caller.
StartFailRethrows(c) ==
    /\ startCalls[c].pc = "init"
    /\ isTracking' = FALSE
    /\ startCalls' = [startCalls EXCEPT ![c].pc = "rejected"]
    /\ UNCHANGED << surroundings, disk, options, cfg, startTime, endTime,
                    measurementInterval,
                    totalCpuEnergy, totalRamEnergy, totalGpuEnergy, totalEnergy,
                    measurements, locationInfo, now, timers, ticks,
                    stopCalls, sink, events >>

\* Mutant: the timer is set before initializeSystemInfo is awaited, so a
\* failed start() leaves it scheduled.
StartFailLeavesTimer(c) ==
    /\ startCalls[c].pc = "init"
    /\ isTracking' = FALSE
    /\ measurementInterval' = c
    /\ timers' = timers \cup {c}
    /\ startCalls' = [startCalls EXCEPT ![c].pc = "failed"]
    /\ UNCHANGED << surroundings, disk, options, cfg, startTime, endTime,
                    totalCpuEnergy, totalRamEnergy, totalGpuEnergy, totalEnergy,
                    measurements, locationInfo, now, ticks,
                    stopCalls, sink, events >>

\* start(), lines 96-99: initializeSystemInfo rejected; the catch block logs
\* the error and clears isTracking, and start() resolves.
StartFail(c) ==
    /\ startCalls[c].pc = "init"
    /\ isTracking' = FALSE
    /\ startCalls' = [startCalls EXCEPT ![c].pc = "failed"]
    /\ UNCHANGED << surroundings, disk, options, cfg, startTime, endTime, measurementInterval,
                    totalCpuEnergy, totalRamEnergy, totalGpuEnergy, totalEnergy,
                    measurements, locationInfo, now, timers, ticks,
                    stopCalls, sink, events >>

\* ------------------------------------------------------------------- stop
\* Mutant: stop() has no guard.
StopGuardMissing == FALSE

\* Some start() has been called on the tracker before now.
StartWasCalled == \E c \in StartCalls : startCalls[c].pc # "idle"

\* stop, line 106: the guard.
StopGuard == ~isTracking

\* Mutant: stop() sets isTracking = false before the final measurement, so
\* the handler returns at its guard and stop() goes on to the result.
StopCallFlagFirst(j) ==
    /\ stopCalls[j].pc = "idle"
    /\ \A d \in StopCalls : d < j => stopCalls[d].pc # "idle"
    /\ Event
    /\ IF StopGuard
       THEN /\ stopCalls' = [stopCalls EXCEPT ![j].pc = "done", ![j].ret = 0,
                                             ![j].afterStart = StartWasCalled]
            /\ UNCHANGED << measurementInterval, timers, isTracking, endTime,
                            sink >>
       ELSE /\ timers' = IF Truthy(measurementInterval)
                         THEN timers \ {measurementInterval}
                         ELSE timers
            /\ measurementInterval' = Null
            /\ isTracking' = FALSE
            /\ endTime' = now
            /\ stopCalls' =
                 [stopCalls EXCEPT
                    ![j].pc = "save",
                    ![j].afterStart = StartWasCalled,
                    ![j].computed = TRUE,
                    ![j].results =
                        calculateFinalEmissions(now, totalCpuEnergy,
                            totalRamEnergy, totalGpuEnergy, totalEnergy,
                            measurements)]
            /\ sink' = Append(sink,
                        calculateFinalEmissions(now, totalCpuEnergy,
                            totalRamEnergy, totalGpuEnergy, totalEnergy,
                            measurements))
    /\ UNCHANGED << surroundings, disk, options, cfg, startTime, ticks,
                    totalCpuEnergy, totalRamEnergy, totalGpuEnergy, totalEnergy,
                    measurements, locationInfo, now, startCalls >>

\* stop(), lines 105-119: the guard; the timer is cleared and the final
\* measurement begins.
StopCall(j) ==
    /\ stopCalls[j].pc = "idle"
    /\ \A d \in StopCalls : d < j => stopCalls[d].pc # "idle"
    /\ Event
    /\ IF StopGuard
       THEN /\ stopCalls' = [stopCalls EXCEPT ![j].pc = "done", ![j].ret = 0,
                                             ![j].afterStart = StartWasCalled]
            /\ UNCHANGED << measurementInterval, timers, ticks >>
       ELSE /\ timers' = IF Truthy(measurementInterval)
                         THEN timers \ {measurementInterval}
                         ELSE timers
            /\ measurementInterval' = Null
            /\ ticks' = ticks (+) SetToBag({NewTick("stop", j, measurements)})
            /\ stopCalls' = [stopCalls EXCEPT ![j].pc = "tick",
                                              ![j].afterStart = StartWasCalled]
    /\ UNCHANGED << surroundings, disk, options, cfg, isTracking, startTime, endTime,
                    totalCpuEnergy, totalRamEnergy, totalGpuEnergy, totalEnergy,
                    measurements, locationInfo, now, startCalls, sink >>

\* stop(), lines 133-137: saveData wrote the record (part_001, lines 137-140);
\* stop() resolves with the emissions.
StopReturn(j) ==
    /\ stopCalls[j].pc = "save"
    /\ stopCalls' = [stopCalls EXCEPT ![j].pc = "done",
                                      ![j].ret = stopCalls[j].results.emissions]
    /\ file' = WriteRecords(file, csvWriter.append,
                            [by |-> 0, emissions |-> stopCalls[j].results.emissions])
    /\ csvWriter' = [append |-> TRUE]
    /\ UNCHANGED << surroundings, options, cfg, isTracking, startTime, endTime, measurementInterval,
                    totalCpuEnergy, totalRamEnergy, totalGpuEnergy, totalEnergy,
                    measurements, locationInfo, now, timers, ticks,
                    startCalls, sink, events >>

\* saveData, lines 141-143: writeRecords rejected; the error is logged inside
\* saveData, nothing was written, and stop() resolves with the emissions.
SaveFail(j) ==
    /\ stopCalls[j].pc = "save"
    /\ stopCalls' = [stopCalls EXCEPT ![j].pc = "done",
                                      ![j].ret = stopCalls[j].results.emissions]
    /\ UNCHANGED << surroundings, disk, options, cfg, isTracking, startTime,
                    endTime, measurementInterval,
                    totalCpuEnergy, totalRamEnergy, totalGpuEnergy, totalEnergy,
                    measurements, locationInfo, now, timers, ticks,
                    startCalls, sink, events >>

\* ------------------------------------------------------------------ clock
\* Date.now() moves forward, a second at a time.
ClockAdvance ==
    /\ Event
    /\ now' = now + 1000
    /\ UNCHANGED << surroundings, disk, options, cfg, isTracking, startTime, endTime, measurementInterval,
                    totalCpuEnergy, totalRamEnergy, totalGpuEnergy, totalEnergy,
                    measurements, locationInfo, timers, ticks, startCalls,
                    stopCalls, sink >>

\* Date.now() is the wall clock: an adjustment can set it back.
ClockSetBack ==
    /\ Event
    /\ now' = now - 1000
    /\ UNCHANGED << surroundings, disk, options, cfg, isTracking, startTime, endTime, measurementInterval,
                    totalCpuEnergy, totalRamEnergy, totalGpuEnergy, totalEnergy,
                    measurements, locationInfo, timers, ticks, startCalls,
                    stopCalls, sink >>

Next ==
    \/ \E c \in StartCalls : StartCall(c)
    \/ \E c \in StartCalls, d \in DetectedLocations : StartInit(c, d)
    \/ \E c \in StartCalls : StartFail(c)
    \/ \E j \in StopCalls : StopCall(j)
    \/ \E j \in StopCalls : StopReturn(j)
    \/ \E k \in StartCalls : TimerFire(k)
    \/ SomeTickEnd
    \/ SomeTickFail
    \/ ClockAdvance
    \/ ClockSetBack

Spec == Init /\ [][Next]_vars

\* A client that awaits every call (README.md, Basic Usage: await
\* tracker.start(); ...; await tracker.stop()): it makes its next call once
\* the promise of the previous one has settled.
CallsSettled ==
    /\ \A c \in StartCalls :
          startCalls[c].pc \in {"idle", "warned", "failed", "done"}
    /\ \A j \in StopCalls : stopCalls[j].pc \in {"idle", "done"}

AwaitedStartCall(c) == CallsSettled /\ StartCall(c)

AwaitedStopCall(j) == CallsSettled /\ StopCall(j)

AwaitedInit == \E o \in AwaitedOptions : InitWith(o)

AwaitedNext ==
    \/ \E c \in StartCalls : AwaitedStartCall(c)
    \/ \E c \in StartCalls, d \in DetectedLocations : StartInit(c, d)
    \/ \E c \in StartCalls : StartFail(c)
    \/ \E j \in StopCalls : AwaitedStopCall(j)
    \/ \E j \in StopCalls : StopReturn(j)
    \/ \E k \in StartCalls : TimerFire(k)
    \/ SomeTickEnd
    \/ SomeTickFail
    \/ ClockAdvance
    \/ ClockSetBack

AwaitedSpec == AwaitedInit /\ [][AwaitedNext]_vars

\* A session in which the sampler calls of one tick settle before the next
\* tick begins (the samplers answer well within the interval), the client
\* awaits its calls, and the clock runs forward.
TimePasses ==
    /\ now < MaxSeconds * 1000
    /\ now' = now + 1000
    /\ UNCHANGED << surroundings, disk, options, cfg, isTracking, startTime,
                    endTime, measurementInterval,
                    totalCpuEnergy, totalRamEnergy, totalGpuEnergy, totalEnergy,
                    measurements, locationInfo, timers, ticks, startCalls,
                    stopCalls, sink, events >>

SteadyTimerFire(k) == InFlight = 0 /\ TimerFire(k)

SteadyStopCall(j) == InFlight = 0 /\ AwaitedStopCall(j)

SteadyNext ==
    \/ \E c \in StartCalls : AwaitedStartCall(c)
    \/ \E c \in StartCalls, d \in DetectedLocations : StartInit(c, d)
    \/ \E j \in StopCalls : SteadyStopCall(j)
    \/ \E j \in StopCalls : StopReturn(j)
    \/ \E k \in StartCalls : SteadyTimerFire(k)
    \/ SomeTickEnd
    \/ SomeTickFail
    \/ TimePasses

SteadySpec == Init /\ [][SteadyNext]_vars

\* -------------------------------------------------------------- getStatus
\* Mutant: the snapshot reports an empty log.
getStatusNoLog ==
    [ isTracking |-> isTracking,
      duration |-> IF isTracking THEN (now - startTime) \div 1000 ELSE 0,
      measurements |-> 0,
      totalEnergy |-> totalEnergy ]

\* getStatus, lines 324-332: the snapshot it returns.
getStatus ==
    [ isTracking |-> isTracking,
      duration |-> IF isTracking THEN (now - startTime) \div 1000 ELSE 0,
      measurements |-> Len(measurements),
      totalEnergy |-> totalEnergy ]

\* A getStatus() call by the client.
GetStatus ==
    /\ Event
    /\ status' = getStatus
    /\ UNCHANGED << disk, others, wt, options, cfg, isTracking, startTime,
                    endTime, measurementInterval,
                    totalCpuEnergy, totalRamEnergy, totalGpuEnergy, totalEnergy,
                    measurements, locationInfo, now, timers, ticks,
                    startCalls, stopCalls, sink >>

\* The awaiting client also polls the status (README.md, lines 206-209).
StatusNext ==
    \/ AwaitedNext
    \/ GetStatus

StatusSpec == Init /\ [][StatusNext]_vars

\* ----------------------------------------------------------- withTracking
\* All of the tracker's state.
trackerAndDisk ==
    << options, cfg, isTracking, startTime, endTime, measurementInterval,
       totalCpuEnergy, totalRamEnergy, totalGpuEnergy, totalEnergy,
       measurements, locationInfo, now, timers, ticks, startCalls,
       stopCalls, sink, events, file, csvWriter, others, status >>

\* examples/demo.js, lines 314-316: the tracker is new; await tracker.start().
WtStart ==
    /\ wt.pc = "pending"
    /\ startCalls[1].pc = "idle"
    /\ StartCall(1)

\* Mutant: an error thrown by fn leaves withTracking at once.
FnThrowsNoStop ==
    /\ wt.pc = "pending"
    /\ startCalls[1].pc \in {"done", "failed"}
    /\ wt' = [wt EXCEPT !.pc = "rejected"]
    /\ UNCHANGED trackerAndDisk

\* Lines 319 and 323: start() has resolved and fn() throws or rejects.
FnThrows ==
    /\ wt.pc = "pending"
    /\ startCalls[1].pc \in {"done", "failed"}
    /\ wt' = [wt EXCEPT !.pc = "threw"]
    /\ UNCHANGED trackerAndDisk

\* Line 319: start() has resolved and fn() returns.
FnReturns ==
    /\ wt.pc = "pending"
    /\ startCalls[1].pc \in {"done", "failed"}
    /\ wt' = [wt EXCEPT !.pc = "returned"]
    /\ UNCHANGED trackerAndDisk

\* Lines 320 and 324: await tracker.stop(), on either path.
WtStop ==
    /\ wt.pc \in {"returned", "threw"}
    /\ stopCalls[1].pc = "idle"
    /\ StopCall(1)

\* Lines 322 and 325: stop() has resolved; withTracking returns the result
\* with stop()'s value, or throws fn's error on.
WtSettle ==
    /\ wt.pc \in {"returned", "threw"}
    /\ stopCalls[1].pc = "done"
    /\ wt' = IF wt.pc = "returned"
             THEN [pc |-> "resolved", emissions |-> stopCalls[1].ret]
             ELSE [pc |-> "rejected", emissions |-> Null]
    /\ UNCHANGED trackerAndDisk

WithTrackingNext ==
    \/ WtStart
    \/ \E c \in StartCalls, d \in DetectedLocations : StartInit(c, d)
    \/ \E c \in StartCalls : StartFail(c)
    \/ FnReturns
    \/ FnThrows
    \/ WtStop
    \/ \E j \in StopCalls : StopReturn(j)
    \/ \E j \in StopCalls : SaveFail(j)
    \/ StopThrows
    \/ WtSettle
    \/ \E k \in StartCalls : TimerFire(k)
    \/ SomeTickEnd
    \/ SomeTickFail
    \/ ClockAdvance
    \/ ClockSetBack

WithTrackingSpec == Init /\ [][WithTrackingNext]_vars

\* ------------------------------------------------- trackers sharing a file
\* All of this tracker's state but the file.
tracker ==
    << options, cfg, isTracking, startTime, endTime, measurementInterval,
       totalCpuEnergy, totalRamEnergy, totalGpuEnergy, totalEnergy,
       measurements, locationInfo, now, timers, ticks, startCalls,
       stopCalls, sink, events, csvWriter, status, wt >>

\* new EmissionsTracker(options) elsewhere in the process, on the same output
\* file: OutputHandler.constructor, initializeCSVWriter, lines 87-128; the
\* writer's append option is whether the file exists now.
OtherConstruct(h) ==
    /\ ~others[h].constructed
    /\ others' = [others EXCEPT ![h].constructed = TRUE,
                                ![h].append = FileExists(file)]
    /\ UNCHANGED << tracker, file >>

\* The stop() of such a tracker: OutputHandler.saveData, lines 134-144,
\* writes the row of its session; the writer appends from then on.
OtherSave(h) ==
    /\ others[h].constructed
    /\ others[h].written < MaxWrites
    /\ file' = WriteRecords(file, others[h].append,
                            [by |-> h, emissions |-> others[h].written + 1])
    /\ others' = [others EXCEPT ![h].append = TRUE,
                                ![h].written = others[h].written + 1]
    /\ UNCHANGED tracker

OutputNext ==
    \/ \E h \in Others : OtherConstruct(h)
    \/ \E h \in Others : OtherSave(h)

OutputSpec == InitWith(DefaultOptions) /\ [][OutputNext]_vars

\* The same client, with output collaborators that can fail: the console
\* summary throws, the record writer rejects.
FaultyNext ==
    \/ AwaitedNext
    \/ StopThrows
    \/ \E j \in StopCalls : SaveFail(j)

FaultySpec == Init /\ [][FaultyNext]_vars

TypeOK ==
    /\ isTracking \in BOOLEAN
    /\ measurementInterval \in StartCalls \cup {Null}
    /\ timers \subseteq StartCalls
    /\ Len(measurements) <= MaxEvents
    /\ InFlight <= MaxEvents
    /\ events \in 0..MaxEvents

\* --------------------------------------------------------------- properties
\* A stop() has found the tracker running and produced its result.
Stopped == \E j \in StopCalls : stopCalls[j].computed

\* C1: once the tracker has been stopped, no step of a start() made after
\* that stop puts the tracker back into the tracking state or resets the
\* accumulators or the measurement log.
C1_StoppedIsFinal ==
    [][\A c \in StartCalls :
          (startCalls'[c].afterStop /\ startCalls'[c] # startCalls[c])
             => (~isTracking' /\ UNCHANGED accumulators)]_vars

\* C2: a start() made while the tracker is tracking returns at once and
\* leaves the accumulators, the total, the log, startTime and the timer as
\* they are.
C2_StartWhileRunningIsNoop ==
    [][\A c \in StartCalls :
          (StartCall(c) /\ isTracking)
             => /\ startCalls'[c].pc = "warned"
                /\ UNCHANGED << accumulators, startTime, isTracking,
                                measurementInterval, timers, ticks >>]_vars

C2_Witness ==
    \E c \in StartCalls :
        /\ startCalls[c].pc = "warned"
        /\ isTracking
        /\ \E d \in StartCalls : d # c /\ startCalls[d].pc = "done"
        /\ Len(measurements) > 0
        /\ Cardinality(timers) = 1

\* C3: while no stop() has been called, at most one start() has reset the
\* accumulators and scheduled a recurring timer.
C3_NoDoubleInit ==
    (\A j \in StopCalls : stopCalls[j].pc = "idle") => Cardinality(timers) <= 1

\* C4: a stop() made while the tracker is not tracking returns 0 at once
\* and changes no accumulator, no total and no entry of the log.
C4_StopWhileNotRunningReturnsZero ==
    [][\A j \in StopCalls :
          (StopCall(j) /\ ~isTracking)
             => /\ stopCalls'[j].pc = "done"
                /\ stopCalls'[j].ret = 0
                /\ UNCHANGED << accumulators, isTracking, timers, ticks, sink >>]_vars

C4_Witness ==
    /\ stopCalls[1].pc = "done" /\ stopCalls[1].computed
    /\ stopCalls[2].pc = "done" /\ ~stopCalls[2].computed /\ stopCalls[2].ret = 0
    /\ totalEnergy > 0

\* C5: once stop() has computed its result and the tracker is stopped, no
\* call of the tick handler changes an accumulator, the total or the log.
C5_FrozenAfterStop ==
    [][(Stopped /\ ~isTracking /\ SomeTickEnd) => UNCHANGED accumulators]_vars

\* C6: at most one call of the tick handler is between reading the time of
\* the previous measurement and adding its increments.
C6_NoOverlappingTicks == InFlight <= 1

\* C7: while the tracker is tracking, no tick decreases the cpu, ram or gpu
\* accumulator.
C7_Monotonic ==
    [][(isTracking /\ SomeTickEnd)
          => /\ totalCpuEnergy' >= totalCpuEnergy
             /\ totalRamEnergy' >= totalRamEnergy
             /\ totalGpuEnergy' >= totalGpuEnergy]_vars

\* C8: the total energy is the sum of the cpu, ram and gpu accumulators.
C8_TotalIsSum ==
    totalEnergy = totalCpuEnergy + totalRamEnergy + totalGpuEnergy

C8_Witness ==
    /\ Len(measurements) >= 2
    /\ totalCpuEnergy > 0 /\ totalRamEnergy > 0 /\ totalGpuEnergy > 0

RECURSIVE SumSeq(_)
\* Sum of a sequence of numbers.
SumSeq(seq) ==
    IF seq = << >> THEN 0 ELSE Head(seq) + SumSeq(Tail(seq))

\* Sum of F(m) over the measurements of the log.
SumOver(meas, F(_)) == SumSeq([i \in 1..Len(meas) |-> F(meas[i])])

LoggedCpu(m) == m.cpuEnergy
LoggedRam(m) == m.ramEnergy
LoggedGpu(m) == m.gpuEnergy
\* watts * elapsedSeconds * pue, the numerator over 3.6e6.
LoggedWattSeconds(m) == (m.cpuPower + m.ramPower + m.gpuPower) * m.duration * cfg.pue

\* C9: the total energy is the sum over the log and the three domains of
\* watts * elapsedSeconds * pue / 3.6e6, and each accumulator is the sum of
\* its domain's increments in the log.
C9_Conservation ==
    /\ totalEnergy = SumOver(measurements, LoggedWattSeconds)
    /\ totalCpuEnergy = SumOver(measurements, LoggedCpu)
    /\ totalRamEnergy = SumOver(measurements, LoggedRam)
    /\ totalGpuEnergy = SumOver(measurements, LoggedGpu)

C9_Witness ==
    /\ Len(measurements) >= 2
    /\ measurements[1].duration > 0
    /\ measurements[2].duration > 0
    /\ measurements[1].cpuPower # measurements[2].cpuPower
    /\ totalEnergy > 0

\* C10: a stop() that found the tracker tracking computes
\* emissions = (carbon intensity of the session's country / 1000) * total
\* energy, hands a result with that value to the output handler, and
\* returns that value.
C10_EmissionsFormula ==
    /\ [][\A j \in StopCalls :
            (stopCalls[j].pc = "tick" /\ stopCalls'[j].pc = "save")
               => /\ stopCalls'[j].results.emissions =
                       getCarbonIntensity(locationInfo'.countryCode) * totalEnergy'
                  /\ sink' = Append(sink, stopCalls'[j].results)]_vars
    /\ [](\A j \in StopCalls :
            (stopCalls[j].pc = "done" /\ stopCalls[j].computed)
               => /\ stopCalls[j].ret = stopCalls[j].results.emissions
                  /\ \E i \in 1..Len(sink) :
                        sink[i].emissions = stopCalls[j].ret)

C10_Witness ==
    \E j \in StopCalls :
        /\ stopCalls[j].pc = "done"
        /\ stopCalls[j].computed
        /\ stopCalls[j].ret > 0
        /\ stopCalls[j].ret = 60 * totalEnergy

\* C11: whenever a start() resolves with the tracker tracking, its immediate
\* tick has been performed and the log holds at least one measurement.
C11_StartLeavesMeasurement ==
    [][\A c \in StartCalls :
          (startCalls[c].pc = "tick" /\ startCalls'[c].pc = "done" /\ isTracking')
             => Len(measurements') >= 1]_vars

\* A timer callback passes the handler's guard and begins a tick.
TimerTickBegins ==
    \E k \in timers :
        /\ TimerFire(k)
        /\ BagCardinality(ticks') > BagCardinality(ticks)

\* C12: a stop() that found the tracker tracking has cancelled the timer
\* before its final tick: while it awaits that tick no timer callback begins
\* a tick, and when the tick settles stop() itself has appended exactly one
\* measurement.
C12_StopCancelsThenTicksOnce ==
    [][\A j \in StopCalls :
          stopCalls[j].pc = "tick"
             => /\ ~TimerTickBegins
                /\ stopCalls'[j].pc = "save" => stopCalls'[j].pushed = 1]_vars

\* An awaited start() followed at once by an awaited stop(): the two calls
\* are the only events, so no time has passed and no timer has fired.
StartThenStop ==
    /\ events = 2
    /\ startCalls[1].pc = "done"
    /\ stopCalls[1].pc = "done"
    /\ stopCalls[1].computed

\* C13 as stated: after start() immediately followed by stop() with no time
\* elapsing, exactly one measurement is recorded.
C13_ExactlyOneMeasurement == StartThenStop => Len(measurements) = 1

\* C13 amended: a stop() that finds the tracker tracking always begins its
\* own final tick, so start() immediately followed by stop() performs two
\* ticks; the log holds one measurement for each of the two whose sampler
\* call resolved, and when both did it holds two, the first over the full
\* interval and the second over 0 seconds.
C13_TwoTicks ==
    /\ [][\A j \in StopCalls :
            (stopCalls[j].pc = "idle" /\ stopCalls'[j].pc # "idle" /\ isTracking)
               => /\ stopCalls'[j].pc = "tick"
                  /\ InFlight' = InFlight + 1]_vars
    /\ [](StartThenStop =>
            /\ Len(measurements) = startCalls[1].pushed + stopCalls[1].pushed
            /\ (startCalls[1].pushed = 1 /\ stopCalls[1].pushed = 1)
                  => /\ Len(measurements) = 2
                     /\ measurements[1].duration = cfg.measurePowerInterval \div 1000
                     /\ measurements[2].duration = 0)

C13_Witness ==
    /\ StartThenStop
    /\ Len(measurements) = 2
    /\ measurements[2].duration = 0

\* Watts of a logged measurement, all domains.
LoggedWatts(m) == m.cpuPower + m.ramPower + m.gpuPower

\* C14 as stated: after start() immediately followed by stop() with no time
\* elapsing, the total energy and the returned emissions are 0.
C14_ZeroEnergy ==
    StartThenStop => (totalEnergy = 0 /\ stopCalls[1].ret = 0)

\* C14 amended: after start() immediately followed by stop() with no time
\* elapsing, the total energy is that of one full sampling interval at the
\* watts of the first logged measurement (watts * interval * pue), 0 only
\* when no measurement was logged, and the returned emissions are the
\* country's intensity times that energy.
C14_OneIntervalEnergy ==
    StartThenStop =>
        /\ totalEnergy =
              IF Len(measurements) = 0
              THEN 0
              ELSE LoggedWatts(measurements[1])
                     * (cfg.measurePowerInterval \div 1000) * cfg.pue
        /\ stopCalls[1].ret =
              getCarbonIntensity(locationInfo.countryCode) * totalEnergy

C14_Witness ==
    /\ StartThenStop
    /\ Len(measurements) = 2
    /\ totalEnergy > 0
    /\ stopCalls[1].ret > 0
    /\ cfg.measurePowerInterval = 15000

\* C15: when a fixed watt value is given for a domain in the options, 0 W
\* included, every measurement carries exactly that value for the domain,
\* whatever the sampler returned.
C15_OverrideAlwaysUsed ==
    \A i \in 1..Len(measurements) :
        /\ options.forceCpuPower # Null
              => measurements[i].cpuPower = options.forceCpuPower
        /\ options.forceRamPower # Null
              => measurements[i].ramPower = options.forceRamPower
        /\ options.forceGpuPower # Null
              => measurements[i].gpuPower = options.forceGpuPower

\* C16: a session in (USA, CA) is charged with another intensity than a
\* session in (USA, no region), and a session in (USA, unrecognized region)
\* with the same one: over every result with energy handed to the output.
C16_RegionPrecedence ==
    \A i \in 1..Len(sink) :
        (sink[i].countryCode = "USA" /\ sink[i].energyConsumed > 0)
           => /\ sink[i].region \in {NoString, "ZZ"}
                    => sink[i].emissions =
                          getCarbonIntensity("USA") * sink[i].energyConsumed
              /\ sink[i].region = "CA"
                    => sink[i].emissions #
                          getCarbonIntensity("USA") * sink[i].energyConsumed

\* C17: a session whose country code has no entry in the intensity table is
\* charged with the world average, 475 g/kWh: stop() produces its result
\* (no error) with emissions = (475 / 1000) * total energy and returns it.
C17_UnknownCountryWorldAverage ==
    \A j \in StopCalls :
        (stopCalls[j].computed /\ stopCalls[j].results.countryCode = "ZZZ")
           => /\ stopCalls[j].results.emissions =
                    475 * stopCalls[j].results.energyConsumed
              /\ stopCalls[j].pc = "done"
                    => stopCalls[j].ret = 475 * stopCalls[j].results.energyConsumed

C17_Witness ==
    \E j \in StopCalls :
        /\ stopCalls[j].pc = "done"
        /\ stopCalls[j].computed
        /\ locationInfo.countryCode = "ZZZ"
        /\ totalEnergy > 0
        /\ stopCalls[j].ret = 475 * totalEnergy

\* C18: in every result handed to the output, emissionsRate is 0 when the
\* session's duration is 0 or not positive, and emissions / duration
\* otherwise.
C18_RateGuard ==
    \A i \in 1..Len(sink) :
        /\ sink[i].duration <= 0
              => sink[i].emissionsRate = [num |-> 0, den |-> 1]
        /\ sink[i].duration > 0
              => sink[i].emissionsRate =
                    [num |-> sink[i].emissions, den |-> sink[i].duration]

C18_Witness ==
    \E i \in 1..Len(sink) :
        /\ sink[i].duration = 0
        /\ sink[i].emissions > 0
        /\ sink[i].emissionsRate.num = 0

\* C19: a tick whose sampler call fails leaves the session as it is: the
\* timer stays scheduled and the totals and the log are kept; a scheduled or
\* initial tick leaves the tracker tracking, and a stop() whose final tick
\* fails still computes its result, emissions = intensity * total energy.
C19_SamplerFailureKeepsSession ==
    [][SomeTickFail
         => /\ UNCHANGED << timers, measurementInterval, accumulators >>
            /\ stopCalls' = stopCalls => (isTracking' = isTracking)
            /\ \A j \in StopCalls :
                  stopCalls'[j] # stopCalls[j]
                     => /\ stopCalls'[j].pc = "save"
                        /\ stopCalls'[j].computed
                        /\ stopCalls'[j].results.emissions =
                              getCarbonIntensity(locationInfo.countryCode)
                                 * totalEnergy]_vars

\* The initial tick of an awaited start() failed; the session went on, the
\* tick of the stop() made afterwards added energy, and that stop() returned
\* the emissions computed from it.
C19_Witness ==
    \E j \in StopCalls :
        /\ startCalls[1].pc = "done"
        /\ startCalls[1].pushed = 0
        /\ startCalls[2].pc = "idle"
        /\ Len(measurements) >= 1
        /\ totalEnergy > 0
        /\ stopCalls[j].pc = "done"
        /\ stopCalls[j].computed
        /\ stopCalls[j].pushed = 1
        /\ stopCalls[j].ret = getCarbonIntensity(locationInfo.countryCode) * totalEnergy
        /\ stopCalls[j].ret > 0

\* C20: every call of the tick handler that began, its sampler failing or
\* not, ends with one more measurement in the log.
C20_FailedTickStillMeasures ==
    [][InFlight' < InFlight
         => Len(measurements') = Len(measurements) + 1]_vars

\* C21: when the console summary or the record writer fails during a
\* stop() that found the tracker tracking, the session is still stopped and
\* stop() still returns the computed emissions, intensity * total energy.
C21_OutputFailureKeepsResult ==
    [][\A j \in StopCalls :
          /\ (stopCalls[j].pc = "tick" /\ stopCalls'[j].pc # "tick")
                => ~isTracking'
          /\ (stopCalls[j].pc = "tick" /\ stopCalls'[j].pc = "done")
                => stopCalls'[j].ret =
                      getCarbonIntensity(locationInfo.countryCode) * totalEnergy'
          /\ (stopCalls[j].pc = "save" /\ stopCalls'[j].pc = "done")
                => stopCalls'[j].ret = stopCalls[j].results.emissions]_vars

\* C22: the result of a session is handed to the record writer once: the
\* writer never gets more results than sessions were started.
C22_OneResultPerSession ==
    Len(sink) <= Cardinality({c \in StartCalls :
                                startCalls[c].pc \in {"tick", "done"}})

\* C23: the output file is append-only across trackers: no write removes or
\* replaces a row that is in the file.
C23_AppendOnly ==
    [][\A i \in 1..Len(file.rows) :
          /\ Len(file'.rows) >= i
          /\ file'.rows[i] = file.rows[i]]_vars

\* C24: a getStatus() call, in whatever state it is made, leaves the
\* tracking flag, the timestamps, the timer, the accumulators, the total
\* and the log as they are, and returns the log's current length and the
\* current total energy.
C24_GetStatusReadOnly ==
    [][GetStatus
         => /\ UNCHANGED << isTracking, startTime, endTime,
                            measurementInterval, timers, accumulators >>
            /\ status'.measurements = Len(measurements)
            /\ status'.totalEnergy = totalEnergy
            /\ status'.isTracking = isTracking]_vars

\* getStatus() has just returned while a stop() is awaiting its final
\* measurement, with a measurement in the log.
C24_Witness ==
    /\ \E j \in StopCalls : stopCalls[j].pc = "tick"
    /\ status = getStatus
    /\ status.isTracking
    /\ status.measurements >= 1
    /\ status.totalEnergy > 0

\* C25: start() and stop() never reject, whatever fails inside them (the
\* system information, the sampler, the computation or the output of the
\* result): every call ends resolved, a start() that failed leaves the
\* tracker not tracking, and a stop() that failed has returned a number.
C25_NothingFatal ==
    /\ [](\A c \in StartCalls :
            startCalls[c].pc \in {"idle", "init", "tick", "warned", "failed", "done"})
    /\ [](\A j \in StopCalls :
            /\ stopCalls[j].pc \in {"idle", "tick", "save", "done"}
            /\ stopCalls[j].pc = "done"
                  => (stopCalls[j].ret \in Int /\ stopCalls[j].ret # Null))
    /\ [][\A c \in StartCalls :
            (startCalls[c].pc # "failed" /\ startCalls'[c].pc = "failed")
               => ~isTracking']_vars

\* A start() failed and resolved; the next start() succeeded, and the stop()
\* of that session threw after its final measurement and returned 0.
C25_Witness ==
    /\ startCalls[1].pc = "failed"
    /\ startCalls[2].pc = "done"
    /\ ~isTracking
    /\ \E j \in StopCalls :
          /\ stopCalls[j].pc = "done"
          /\ stopCalls[j].pushed = 1
          /\ ~stopCalls[j].computed
          /\ stopCalls[j].ret = 0

\* C26: when the promise of withTracking settles, fn having returned or
\* thrown, stop() has been called on the tracker and has resolved and the
\* tracker is not tracking; an error thrown by fn is thrown on to the
\* caller, and on success the emissions returned are what stop() returned.
C26_WithTrackingStops ==
    /\ [](wt.pc \in {"resolved", "rejected"}
            => (stopCalls[1].pc = "done" /\ ~isTracking))
    /\ [](wt.pc = "resolved" => wt.emissions = stopCalls[1].ret)
    /\ [][(wt.pc = "threw" /\ wt'.pc # "threw") => wt'.pc = "rejected"]_vars
    /\ [][(wt.pc = "returned" /\ wt'.pc # "returned")
            => wt'.pc = "resolved"]_vars

\* fn threw while the tracker was tracking; stop() produced the session's
\* result and withTracking has rejected.
C26_Witness ==
    /\ wt.pc = "rejected"
    /\ stopCalls[1].pc = "done"
    /\ stopCalls[1].computed
    /\ Len(measurements) >= 1
    /\ ~isTracking

\* C27: every measurement in the log has an elapsed time of at least 0
\* seconds, also when the clock read at its tick was behind the timestamp of
\* the measurement before it.
C27_ElapsedNotNegative ==
    \A i \in 1..Len(measurements) : measurements[i].duration >= 0

\* A call of the handler has just begun.
Begun(tk) == CopiesIn(tk, ticks') > CopiesIn(tk, ticks)

\* C28: the tick that start() performs is charged the full configured
\* interval whatever the clock says, and so is its measurement; every tick
\* that begins with a measurement in the log is charged the clock time since
\* that measurement's timestamp.
C28_FirstTickFullInterval ==
    /\ [][\A tk \in BagToSet(ticks') :
            Begun(tk)
               => /\ tk.kind = "start"
                        => tk.timeSinceLastMeasurement =
                              cfg.measurePowerInterval \div 1000
                  /\ (tk.kind # "start" /\ Len(measurements) > 0)
                        => tk.timeSinceLastMeasurement =
                              (now - measurements[Len(measurements)].timestamp)
                                 \div 1000]_vars
    /\ [][\A c \in StartCalls :
            (startCalls[c].pc = "tick" /\ startCalls'[c].pc = "done"
               /\ startCalls'[c].pushed = 1)
               => measurements'[Len(measurements')].duration =
                     cfg.measurePowerInterval \div 1000]_vars

\* The first measurement was taken at the start time and is charged the
\* interval; the second is charged the clock time since the first, which is
\* another amount.
C28_Witness ==
    /\ Len(measurements) >= 2
    /\ measurements[1].timestamp = startTime
    /\ measurements[1].duration = cfg.measurePowerInterval \div 1000
    /\ measurements[2].duration =
          (measurements[2].timestamp - measurements[1].timestamp) \div 1000
    /\ measurements[2].duration # measurements[1].duration

\* C29: whatever measurePowerSecs is given at construction (none, 0, a
\* negative or a positive number), the sampling interval of the tracker is
\* strictly positive, and so is the elapsed time of the first measurement.
C29_IntervalPositive ==
    /\ cfg.measurePowerInterval > 0
    /\ Len(measurements) >= 1 => measurements[1].duration > 0

\* Locales from which detectLocation gets no country.
NoCountryLocales == { l \in Locales : l = LocaleThrows \/ extractCountryFromLocale(l) = NoString }

\* C30: when no country is given and the locale cannot be read or names no
\* country, start() goes on with the default location, country USA, and is
\* tracking; the result of the session has emissions = intensity of USA *
\* total energy.
C30_LocationFallback ==
    /\ [][\A c \in StartCalls, l \in NoCountryLocales :
            (cfg.countryCode = NoString /\ StartInit(c, detectLocation(l)))
               => /\ isTracking'
                  /\ locationInfo'.countryCode = "USA"
                  /\ locationInfo'.countryName = "United States"]_vars
    /\ [](\A j \in StopCalls :
            (stopCalls[j].computed /\ stopCalls[j].results.countryCode = "USA")
               => stopCalls[j].results.emissions =
                     getCarbonIntensity("USA") * stopCalls[j].results.energyConsumed)

C30_Witness ==
    \E j \in StopCalls :
        /\ options.countryCode = NoString
        /\ locationInfo = FallbackLocation
        /\ stopCalls[j].pc = "done"
        /\ stopCalls[j].computed
        /\ stopCalls[j].ret > 0
        /\ stopCalls[j].ret = getCarbonIntensity("USA") * totalEnergy

\* C31: along the log the timestamps never decrease, and every measurement
\* after the first is charged the time between its own timestamp and the
\* timestamp of the measurement just before it in the log.
C31_LogOrdered ==
    \A i \in 2..Len(measurements) :
        /\ measurements[i].timestamp >= measurements[i-1].timestamp
        /\ measurements[i].duration =
              (measurements[i].timestamp - measurements[i-1].timestamp) \div 1000

\* C32: when a stop() that found the tracker tracking resolves, no timer
\* set by a start() of this tracker is still scheduled.
C32_NoTimerAfterStop ==
    [][\A j \in StopCalls :
          (stopCalls[j].pc # "done" /\ stopCalls'[j].pc = "done"
             /\ stopCalls'[j].computed)
             => timers' = {}]_vars

\* One start() and then one stop() have been called on the tracker, the
\* stop() perhaps before the start() had finished, and both have resolved.
StartAndStopResolved ==
    /\ startCalls[1].pc \in {"done", "failed"}
    /\ startCalls[2].pc = "idle"
    /\ stopCalls[1].pc = "done"
    /\ stopCalls[1].afterStart
    /\ stopCalls[2].pc = "idle"

\* C33: once a start() and a stop() called after it have both resolved, the
\* tracker is not tracking and no timer is scheduled.
C33_StopAfterStartEndsSession ==
    StartAndStopResolved => (~isTracking /\ timers = {})

C35_TickWhileNotTrackingIsNoop ==
    [][\A k \in StartCalls :
          (TimerFire(k) /\ ~isTracking)
             => /\ UNCHANGED << accumulators, ticks, isTracking, sink >>
                /\ startCalls'[k].skipped = startCalls[k].skipped + 1]_vars

\* A timer that is still scheduled has called the handler while the
\* tracker was not tracking; the tracker holds energy and a log.
C35_Witness ==
    \E k \in StartCalls :
        /\ startCalls[k].skipped > 0
        /\ k \in timers
        /\ ~isTracking
        /\ Len(measurements) > 0
        /\ totalEnergy > 0

\* The start() called last on the tracker has failed.
LastStartFailed ==
    \E c \in StartCalls :
        /\ startCalls[c].pc = "failed"
        /\ \A d \in StartCalls : d > c => startCalls[d].pc = "idle"

\* C36: a start() that fails while it resolves the system information or
\* the location sets no timer, begins no tick, leaves the accumulators, the
\* total, the log and startTime as they were and the tracker not tracking;
\* the stop() that follows it returns 0 and produces no result.
C36_FailedStartLeavesNothing ==
    /\ [][\A c \in StartCalls :
            (startCalls[c].pc = "init" /\ startCalls'[c].pc = "failed")
               => /\ UNCHANGED << accumulators, startTime, timers,
                                  measurementInterval, ticks, sink >>
                  /\ ~isTracking']_vars
    /\ [][\A j \in StopCalls :
            (LastStartFailed /\ StopCall(j))
               => /\ stopCalls'[j].pc = "done"
                  /\ stopCalls'[j].ret = 0
                  /\ ~stopCalls'[j].computed
                  /\ UNCHANGED << accumulators, timers, ticks, sink >>]_vars

\* The only start() failed, and the stop() called after it returned 0; no
\* timer is scheduled, nothing was measured and startTime was never set.
C36_Witness ==
    /\ startCalls[1].pc = "failed"
    /\ startCalls[2].pc = "idle"
    /\ stopCalls[1].pc = "done"
    /\ stopCalls[1].afterStart
    /\ stopCalls[1].ret = 0
    /\ ~stopCalls[1].computed
    /\ ~isTracking
    /\ timers = {}
    /\ InFlight = 0
    /\ Len(measurements) = 0
    /\ totalEnergy = 0
    /\ startTime = Null
    /\ sink = << >>

\* The power of one domain that a result reports for a log.
LatestOrZero(meas, field) ==
    IF Len(meas) > 0 THEN meas[Len(meas)][field] ELSE 0

\* C37: when stop() computes its result, the cpu, ram and gpu power of the
\* result are those of the last measurement then in the log, or 0 when the
\* log is empty, and its cpu, ram and gpu energy are the accumulators.
C37_ResultSnapshot ==
    [][Len(sink') > Len(sink)
         => LET r == sink'[Len(sink')]
            IN /\ r.cpuPower = LatestOrZero(measurements', "cpuPower")
               /\ r.ramPower = LatestOrZero(measurements', "ramPower")
               /\ r.gpuPower = LatestOrZero(measurements', "gpuPower")
               /\ r.cpuEnergy = totalCpuEnergy'
               /\ r.ramEnergy = totalRamEnergy'
               /\ r.gpuEnergy = totalGpuEnergy'
               /\ r.measurements = Len(measurements')]_vars

\* A result was computed over a log of two measurements with different cpu
\* power: it reports the power of the second and the accumulated energy.
C37_Witness ==
    /\ Len(sink) = 1
    /\ Len(measurements) = 2
    /\ sink[1].measurements = 2
    /\ measurements[1].cpuPower # measurements[2].cpuPower
    /\ sink[1].cpuPower = measurements[2].cpuPower
    /\ sink[1].cpuEnergy = totalCpuEnergy
    /\ sink[1].cpuEnergy > 0
====
